---- MODULE Spec2Model ----
(***************************************************************************)
(* State-machine model of the editor and renderer pieces of the repository *)
(* that carry behavioural contracts:                                       *)
(*   - the animation editor's preview mode (editor/src/animation/data.rs), *)
(*   - the ComponentProvider derive as exercised by its test,              *)
(*   - the tile map editor's TileDrawState (editor/src/plugins/tilemap),   *)
(*   - the BitField widget (fyrox-ui/src/bit.rs),                          *)
(*   - the G-buffer and its decal pass (fyrox-impl/src/renderer/gbuffer).  *)
(* Every subsystem has its own variables, its own next-state relation and  *)
(* its own specification; all of them start from the one state Init.       *)
(***************************************************************************)
EXTENDS Integers, Sequences, FiniteSets, TLC

\* ------------------------------------------------------------------------
\* Bounds of the model
\* ------------------------------------------------------------------------
\* Number of valid node handles in the scene graph (1 is the animation player).
NumNodes == 3
\* Number of animations in the animation player's container.
NumAnims == 2
\* Largest value of a node's animated property.
MaxVal == 1
\* Largest animation time position.
MaxTime == 1
\* Largest value of a component's scalar field.
MaxField == 2
\* Number of palette widget handles, and of tile map node handles.
NumTileHandles == 2
\* Number of cells a tile selection may hold.
NumCells == 2

\* Largest content a texture is told apart by (0 is the cleared content).
MaxPixel == 1
\* Largest number of deferred bundles in a frame.
NumBundles == 2
\* Largest number of decals in the graph.
NumDecals == 2

\* Number of nodes of the edited game scene.
NumSceneNodes == 3
\* Number of those nodes that are tile maps (the first ones).
NumTileMaps == 2

\* Number of delayed messages that are told apart.
NumMessages == 3
\* Largest delay_frames a delayed message is created with.
MaxDelay == 2

\* Number of pixels of the frame buffer the UI is rendered to.
NumPixels == 2
\* Largest number of commands in a drawing context.
NumCommands == 2
\* Largest number of clipping triangles that cover one pixel.
MaxOverlap == 2

VARIABLES
    \* --- animation editor (preview mode) ---
    scene_loaded,       \* a scene has been put into the graph
    graph,              \* G: handle -> node
    selection,          \* fetch_selection(editor_selection)
    node_overrides,     \* FxHashSet<Handle<N>> owned by the caller
    preview_mode_data,  \* Option<Box<PreviewModeData>>
    toolbar_enabled,    \* play_pause/stop enabled (on_preview_mode_changed)
    cmd_pending,        \* the editor's message loop is between handle_message of a
                        \* scene command and the execution of that command
    panicked,           \* an assert!/unwrap/expect of the editor failed
    last,               \* the handler that ran last and its argument
    entry_graph,        \* graph at the moment EnterPreviewMode began to be handled
    touched,            \* nodes changed since preview mode was entered
    \* --- ComponentProvider derive test ---
    foo,                \* the Foo value of test_component_provider, or None
    query,              \* the last component query and what it returned
    \* --- tile map editor plugin ---
    tstate,             \* TileMapEditorPlugin::state (the shared TileDrawState)
    tile_set_editor,    \* TileMapEditorPlugin::tile_set_editor.is_some()
    panel,              \* TileMapEditorPlugin::panel.is_some()
    delayed_messages,   \* TileMapEditorPlugin::delayed_messages
    tile_ui_sent,       \* contents sent to the UI by the last on_update
    mutated,            \* a lock_mut/into_mut happened since the last check_dirty
    tile_last,          \* the tile operation that ran last and its result
    dm_track,           \* of each delayed message: whether it was received, its
                        \* delay, the on_updates it has waited and how often and
                        \* in which on_update after it was received it was sent
    \* --- BitField widget ---
    bf_built,           \* BitFieldBuilder::build has run
    bf_value,           \* BitField::value
    bf_checked,         \* the checked state each bit switch was created with
    bf_last,            \* the message handle_routed_message handled last
    bf_out,             \* the messages that call sent with ui.send_message
    bf_parent,          \* the live nodes of the user interface, each with its parent
    \* --- G-buffer ---
    gb_created,         \* GBuffer::new has returned Ok
    gb_textures,        \* the textures of the graphics server, by creation order
    gb_framebuffer,     \* GBuffer::framebuffer
    gb_decal_framebuffer, \* GBuffer::decal_framebuffer
    gb_width,           \* GBuffer::width
    gb_height,          \* GBuffer::height
    gb_pc,              \* position of GBuffer::fill
    gb_bundles_left,    \* deferred bundles fill has still to render
    gb_decals_left,     \* decals fill has still to draw
    gb_before,          \* texture contents when the decal loop of fill began
    \* --- tile map editor plugin: the edited tile map ---
    tm_selection,       \* entry.selection of the current scene entry
    tm_alive,           \* handles that graph.try_get finds a node for
    tm_node_data,       \* TileMap::editor_data.is_some() of each node
    tm_tile_map,        \* TileMapEditorPlugin::tile_map
    tm_editor_data,     \* TileMapEditorPlugin::editor_data.is_some()
    tm_mode,            \* tile map of the installed TileMapInteractionMode, or NONE
    tm_last,            \* what happened last
    \* --- UI renderer ---
    ui_pc,              \* position of UiRenderer::render
    ui_left,            \* commands of the drawing context still to render
    ui_cmd,             \* the command of the current (or last) turn of the loop
    ui_stencil_test,    \* the local stencil_test of the current turn
    ui_stencil,         \* stencil buffer of the frame buffer, per pixel
    ui_drawn,           \* pixels the last draw of main geometry wrote
    ui_ops              \* frame buffer operations of the current (or last) turn

previewVars == <<scene_loaded, graph, selection, node_overrides, preview_mode_data,
                 toolbar_enabled, cmd_pending, panicked, last, entry_graph, touched>>

componentVars == <<foo, query>>

tileVars == <<tstate, tile_set_editor, panel, delayed_messages, tile_ui_sent, mutated,
              tile_last, dm_track>>

bitVars == <<bf_built, bf_value, bf_checked, bf_last, bf_out, bf_parent>>

gbufferVars == <<gb_created, gb_textures, gb_framebuffer, gb_decal_framebuffer, gb_width,
                 gb_height, gb_pc, gb_bundles_left, gb_decals_left, gb_before>>

tileMapVars == <<tm_selection, tm_alive, tm_node_data, tm_tile_map, tm_editor_data, tm_mode,
                 tm_last>>

uiVars == <<ui_pc, ui_left, ui_cmd, ui_stencil_test, ui_stencil, ui_drawn, ui_ops>>

vars == <<previewVars, componentVars, tileVars, bitVars, gbufferVars, tileMapVars, uiVars>>

\* ------------------------------------------------------------------------
\* Handles
\* ------------------------------------------------------------------------
\* Handle::NONE
NONE == 0
None == [none |-> TRUE]

NodeHandles == 1 .. NumNodes
\* A handle that points at no node of the graph (a stale track target).
StaleHandle == NumNodes + 1
AnimHandles == 1 .. NumAnims

\* ========================================================================
\* Animation editor: preview mode        (editor/src/animation/data.rs)
\* ========================================================================

\* The only animation player of the modelled scene.
Player == 1

Animations == [enabled : BOOLEAN, time : 0 .. MaxTime, targets : SUBSET (NodeHandles \cup {StaleHandle})]

\* Track target sets the first animation of a loaded scene may have: plain nodes,
\* no target, the player itself, a stale handle.
TargetChoices == {{2}, {2, 3}, {}, {Player, 2}, {2, StaleHandle}}

PlainNode(v) ==
    [is_player |-> FALSE, auto_apply |-> FALSE, anims |-> <<>>, val |-> v]

PlayerNode(aa, anims) ==
    [is_player |-> TRUE, auto_apply |-> aa, anims |-> anims, val |-> 0]

\* ToolbarAction (toolbar.rs)
ToolbarActions ==
    {"None", "EnterPreviewMode", "LeavePreviewMode", "SelectAnimation", "PlayPause", "Stop"}

\* Message variants the editor broadcasts to handle_message.
SceneCommandMessages == {"DoCommand", "UndoCurrentSceneCommand", "RedoCurrentSceneCommand"}
OtherMessages == {"SelectionChanged", "SetInteractionMode"}
Messages == SceneCommandMessages \cup OtherMessages

\* animation_container_ref(graph, handle).is_some()
animation_container_ref(g, h) == h \in NodeHandles /\ g[h].is_player

\* animations.try_get(handle).is_some()
try_get_animation(g, p, a) == a \in DOMAIN g[p].anims

\* Animation::rewind
rewind(anim) == [anim EXCEPT !.time = 0]

\* The elements of a finite set of integers in ascending order.
RECURSIVE SetToSeq(_)
SetToSeq(S) ==
    IF S = {} THEN <<>>
    ELSE LET m == CHOOSE x \in S : \A y \in S : x <= y
         IN <<m>> \o SetToSeq(S \ {m})

is_in_preview_mode == preview_mode_data # None

\* The value of entry_graph while no preview is being followed.
NoEntry == [h \in NodeHandles |-> PlainNode(0)]

\* entry_graph is kept from the entry into preview mode until the step after the
\* one that leaves it.
KeepEntry == IF preview_mode_data = None THEN NoEntry ELSE entry_graph
KeepTouched == IF preview_mode_data = None THEN {} ELSE touched

\* RevertNodes as it would be if only the animation player (the last saved node)
\* were written back.
RevertNodesPlayerOnly(g, nodes) ==
    IF nodes = <<>> THEN g
    ELSE [g EXCEPT ![nodes[Len(nodes)][1]] = nodes[Len(nodes)][2]]

\* "Revert state of nodes": the loop of leave_preview_mode over data.nodes.
RECURSIVE RevertNodes(_, _)
RevertNodes(g, nodes) ==
    IF nodes = <<>> THEN g
    ELSE RevertNodes([g EXCEPT ![Head(nodes)[1]] = Head(nodes)[2]], Tail(nodes))

RECURSIVE RemoveOverrides(_, _)
RemoveOverrides(ov, nodes) ==
    IF nodes = <<>> THEN ov
    ELSE RemoveOverrides(ov \ {Head(nodes)[1]}, Tail(nodes))

\* leave_preview_mode: re-enable the toolbar state, take the saved data (panics
\* when there is none) and write every saved node back.
leave_preview_mode ==
    IF preview_mode_data = None
    THEN /\ panicked' = TRUE
         /\ toolbar_enabled' = FALSE
         /\ UNCHANGED <<graph, node_overrides, preview_mode_data>>
    ELSE /\ toolbar_enabled' = FALSE
         /\ preview_mode_data' = None
         /\ node_overrides' = RemoveOverrides(node_overrides, preview_mode_data.nodes)
         /\ graph' = RevertNodes(graph, preview_mode_data.nodes)
         /\ UNCHANGED panicked

try_leave_preview_mode ==
    IF preview_mode_data # None
    THEN leave_preview_mode
    ELSE UNCHANGED <<graph, node_overrides, preview_mode_data, toolbar_enabled, panicked>>

\* enter_preview_mode(handle, saved player, targets, graph g at the call).
enter_preview_mode(h, saved, targets, g) ==
    IF preview_mode_data # None
    THEN \* assert!(self.preview_mode_data.is_none())
         /\ panicked' = TRUE
         /\ graph' = g
         /\ UNCHANGED <<preview_mode_data, toolbar_enabled>>
         /\ node_overrides' = node_overrides \cup {h}
    ELSE IF targets \cap (node_overrides \cup {h}) # {}
    THEN \* assert!(node_overrides.insert(target))
         /\ panicked' = TRUE
         /\ graph' = g
         /\ toolbar_enabled' = TRUE
         /\ node_overrides' = node_overrides \cup {h} \cup targets
         /\ UNCHANGED preview_mode_data
    ELSE IF ~(targets \subseteq NodeHandles)
    THEN \* graph.node(t) of a handle that is not in the graph
         /\ panicked' = TRUE
         /\ graph' = g
         /\ toolbar_enabled' = TRUE
         /\ node_overrides' = node_overrides \cup {h} \cup targets
         /\ UNCHANGED preview_mode_data
    ELSE /\ toolbar_enabled' = TRUE
         /\ node_overrides' = node_overrides \cup {h} \cup targets
         /\ graph' = g
         /\ preview_mode_data' =
                [nodes |-> [i \in 1 .. Cardinality(targets) |->
                               <<SetToSeq(targets)[i], g[SetToSeq(targets)[i]]>>]
                           \o <<<<h, saved>>>>]
         /\ UNCHANGED panicked

\* The EnterPreviewMode arm of handle_ui_message.
EnterPreviewModeArm ==
    LET p == selection.animation_player
        a == selection.animation
        \* *auto_apply = true
        g1 == [graph EXCEPT ![p].auto_apply = TRUE]
        \* let initial_animation_player = animation_player_node.clone()
        saved == g1[p]
        \* animation.set_enabled(handle == selection.animation)
        g2 == [g1 EXCEPT ![p].anims =
                  [x \in DOMAIN g1[p].anims |-> [g1[p].anims[x] EXCEPT !.enabled = (x = a)]]]
    IN IF p \in node_overrides
       THEN \* assert!(node_overrides.insert(selection.animation_player))
            /\ panicked' = TRUE
            /\ UNCHANGED <<graph, node_overrides, preview_mode_data, toolbar_enabled>>
       ELSE IF try_get_animation(g2, p, a)
       THEN enter_preview_mode(p, saved,
                g2[p].anims[a].targets,
                [g2 EXCEPT ![p].anims[a] = rewind(g2[p].anims[a])])
       ELSE /\ graph' = g2
            /\ node_overrides' = node_overrides \cup {p}
            /\ UNCHANGED <<preview_mode_data, toolbar_enabled, panicked>>

\* handle_ui_message for a UI message the toolbar turns into `action`.
handle_ui_message(action) ==
    /\ scene_loaded /\ ~panicked /\ ~cmd_pending
    /\ last' = [op |-> "handle_ui_message", arg |-> action]
    /\ entry_graph' = IF action = "EnterPreviewMode"
                         /\ animation_container_ref(graph, selection.animation_player)
                      THEN graph ELSE KeepEntry
    /\ UNCHANGED <<scene_loaded, selection, cmd_pending>>
    /\ IF ~animation_container_ref(graph, selection.animation_player)
       THEN UNCHANGED <<graph, node_overrides, preview_mode_data, toolbar_enabled, panicked>>
       ELSE LET p == selection.animation_player
                a == selection.animation
            IN CASE action = "EnterPreviewMode" -> EnterPreviewModeArm
                 [] action = "LeavePreviewMode" -> try_leave_preview_mode
                 [] action = "PlayPause" ->
                      /\ graph' = IF preview_mode_data # None /\ try_get_animation(graph, p, a)
                                  THEN [graph EXCEPT ![p].anims[a].enabled = ~@]
                                  ELSE graph
                      /\ UNCHANGED <<node_overrides, preview_mode_data, toolbar_enabled, panicked>>
                 [] action = "Stop" ->
                      /\ graph' = IF preview_mode_data # None /\ try_get_animation(graph, p, a)
                                  THEN [graph EXCEPT ![p].anims[a] =
                                            [rewind(@) EXCEPT !.enabled = FALSE]]
                                  ELSE graph
                      /\ UNCHANGED <<node_overrides, preview_mode_data, toolbar_enabled, panicked>>
                 [] OTHER ->
                      UNCHANGED <<graph, node_overrides, preview_mode_data, toolbar_enabled, panicked>>
    /\ touched' = IF action = "EnterPreviewMode" THEN {}
                  ELSE IF action \in {"PlayPause", "Stop"} /\ graph' # graph
                  THEN KeepTouched \cup {selection.animation_player}
                  ELSE KeepTouched

\* handle_message as it would be if the undo message were left out of its pattern.
handle_message_no_undo(message) ==
    /\ scene_loaded /\ ~panicked /\ ~cmd_pending
    /\ last' = [op |-> "handle_message", arg |-> message]
    /\ cmd_pending' = (message \in SceneCommandMessages)
    /\ entry_graph' = KeepEntry
    /\ touched' = KeepTouched
    /\ UNCHANGED <<scene_loaded, selection>>
    /\ IF message \in {"DoCommand", "RedoCurrentSceneCommand"}
       THEN try_leave_preview_mode
       ELSE UNCHANGED <<graph, node_overrides, preview_mode_data, toolbar_enabled, panicked>>

\* handle_message: leave preview mode before execution of any scene command.
handle_message(message) ==
    /\ scene_loaded /\ ~panicked /\ ~cmd_pending
    /\ last' = [op |-> "handle_message", arg |-> message]
    /\ cmd_pending' = (message \in SceneCommandMessages)
    /\ entry_graph' = KeepEntry
    /\ touched' = KeepTouched
    /\ UNCHANGED <<scene_loaded, selection>>
    /\ IF message \in SceneCommandMessages
       THEN try_leave_preview_mode
       ELSE UNCHANGED <<graph, node_overrides, preview_mode_data, toolbar_enabled, panicked>>

\* try_leave_preview_mode called directly by the editor (scene switch, save).
TryLeavePreviewMode ==
    /\ scene_loaded /\ ~panicked /\ ~cmd_pending
    /\ last' = [op |-> "try_leave_preview_mode", arg |-> "None"]
    /\ entry_graph' = KeepEntry
    /\ touched' = KeepTouched
    /\ UNCHANGED <<scene_loaded, selection, cmd_pending>>
    /\ try_leave_preview_mode

\* --- the editor around the animation editor ---

\* A scene with one animation player and two plain nodes is opened.
LoadScene(aa, targets) ==
    /\ ~scene_loaded
    /\ scene_loaded' = TRUE
    /\ graph' = [h \in NodeHandles |->
                    IF h = Player
                    THEN PlayerNode(aa,
                            [x \in AnimHandles |->
                                [enabled |-> TRUE, time |-> 0,
                                 targets |-> IF x = 1 THEN targets ELSE {3}]])
                    ELSE PlainNode(0)]
    /\ selection' = [animation_player |-> Player, animation |-> 1]
    /\ last' = [op |-> "load", arg |-> "None"]
    /\ UNCHANGED <<node_overrides, preview_mode_data, toolbar_enabled, cmd_pending,
                   panicked, entry_graph, touched>>

\* The scene command announced by handle_message runs: it changes the selection
\* (ChangeSelectionCommand) or edits a node.
ExecSceneCommand(p, a, h, v) ==
    /\ scene_loaded /\ ~panicked /\ cmd_pending
    /\ cmd_pending' = FALSE
    /\ selection' = [animation_player |-> p, animation |-> a]
    /\ graph' = IF graph[h].is_player
                THEN [graph EXCEPT ![h].auto_apply = (v = 1)]
                ELSE [graph EXCEPT ![h].val = v]
    /\ last' = [op |-> "command", arg |-> "None"]
    /\ entry_graph' = KeepEntry
    /\ touched' = KeepTouched
    /\ UNCHANGED <<scene_loaded, node_overrides, preview_mode_data, toolbar_enabled, panicked>>

\* The scene changes while it is shown: the editor updates only the nodes named in
\* node_overrides, where the engine advances the enabled animations of a player
\* and applies them to their targets, so an enabled animation's time position or
\* a plain node's value takes another value.
ModifyScene(h, v, a, t) ==
    /\ scene_loaded /\ ~panicked /\ ~cmd_pending
    /\ h \in node_overrides
    /\ graph' = IF graph[h].is_player
                THEN IF graph[h].anims[a].enabled /\ graph[h].auto_apply
                     THEN [graph EXCEPT ![h].anims[a].time = t]
                     ELSE graph
                ELSE [graph EXCEPT ![h].val = v]
    /\ graph' # graph
    /\ last' = [op |-> "modify", arg |-> "None"]
    /\ entry_graph' = KeepEntry
    /\ touched' = KeepTouched \cup {h}
    /\ UNCHANGED <<scene_loaded, selection, node_overrides, preview_mode_data,
                   toolbar_enabled, cmd_pending, panicked>>

\* ------------------------------------------------------------------------
\* Claims about the preview mode
\* ------------------------------------------------------------------------

\* The step that led to this state left a preview mode that had been entered.
JustLeftPreview ==
    /\ preview_mode_data = None
    /\ entry_graph # NoEntry
    /\ ~panicked
    /\ \/ last.op = "handle_ui_message" /\ last.arg = "LeavePreviewMode"
       \/ last.op = "handle_message" /\ last.arg \in SceneCommandMessages
       \/ last.op = "try_leave_preview_mode"

\* The track targets of the animation that was previewed.
PreviewedTargets ==
    entry_graph[selection.animation_player].anims[selection.animation].targets

\* C1: once preview mode has been entered with a valid selected animation, the
\* scene has been modified and preview mode has been left (LeavePreviewMode,
\* try_leave_preview_mode or handle_message), every node targeted by a track of
\* the previewed animation equals its state at the moment of entry.
C1_TargetsReverted ==
    JustLeftPreview => \A t \in PreviewedTargets : graph[t] = entry_graph[t]

\* A preview with targets was left after one of the targets had been changed.
C1_Witness ==
    /\ JustLeftPreview
    /\ touched \cap PreviewedTargets # {}
    /\ \E t \in PreviewedTargets : graph[t].val # 0

\* C2: handle_message leaves preview mode before any scene command: after
\* DoCommand, UndoCurrentSceneCommand or RedoCurrentSceneCommand the editor is
\* not in preview mode and the saved nodes are restored; any other message
\* leaves the preview state, the graph and node_overrides unchanged.
C2_LeaveBeforeCommand ==
    [][last'.op = "handle_message" =>
          IF last'.arg \in SceneCommandMessages
          THEN /\ preview_mode_data' = None
               /\ preview_mode_data # None =>
                     \A i \in DOMAIN preview_mode_data.nodes :
                        graph'[preview_mode_data.nodes[i][1]] = preview_mode_data.nodes[i][2]
          ELSE UNCHANGED <<preview_mode_data, graph, node_overrides>>]_vars

\* An undo message arrived in preview mode after the scene had been changed.
C2_Witness ==
    /\ JustLeftPreview
    /\ last.op = "handle_message" /\ last.arg = "UndoCurrentSceneCommand"
    /\ touched # {}

\* C3: after entering and leaving preview mode the animation player node (its
\* auto_apply flag, every animation's enabled flag and time position) equals
\* its state immediately before EnterPreviewMode was handled.
C3_PlayerReverted ==
    JustLeftPreview =>
        graph[selection.animation_player] = entry_graph[selection.animation_player]

PreviewOthers ==
    UNCHANGED <<componentVars, tileVars, bitVars, gbufferVars, tileMapVars, uiVars>>

HandleUiMessage == (\E action \in ToolbarActions : handle_ui_message(action)) /\ PreviewOthers
HandleMessage == (\E message \in Messages : handle_message(message)) /\ PreviewOthers
LeaveDirectly == TryLeavePreviewMode /\ PreviewOthers
OpenScene ==
    (\E aa \in BOOLEAN, targets \in TargetChoices : LoadScene(aa, targets))
    /\ PreviewOthers
RunSceneCommand ==
    (\E p \in {NONE, Player}, a \in {NONE} \cup AnimHandles, h \in NodeHandles, v \in 0 .. MaxVal :
        ExecSceneCommand(p, a, h, v)) /\ PreviewOthers
SceneChanges ==
    (\E h \in NodeHandles, v \in 0 .. MaxVal, a \in AnimHandles, t \in 0 .. MaxTime :
        ModifyScene(h, v, a, t)) /\ PreviewOthers

NextPreview ==
    \/ HandleUiMessage
    \/ HandleMessage
    \/ LeaveDirectly
    \/ OpenScene
    \/ RunSceneCommand
    \/ SceneChanges


\* ========================================================================
\* ComponentProvider derive      (fyrox-core-derive/tests/it/component.rs)
\* ========================================================================

\* struct Foo as the test declares it: each field's type, whether it carries
\* #[component(include)], and the attribute's path and dest_type ("" when absent).
FooFieldsAllIncluded ==
    << [name |-> "component", ty |-> "Component", include |-> TRUE,
        path |-> <<>>, dest_type |-> ""],
       [name |-> "other_component", ty |-> "OtherComponent", include |-> TRUE,
        path |-> <<>>, dest_type |-> ""],
       [name |-> "wrapper", ty |-> "Wrapper", include |-> TRUE,
        path |-> <<"wrapper", "some_other_component">>, dest_type |-> "SomeOtherComponent"],
       [name |-> "non_component", ty |-> "String", include |-> TRUE,
        path |-> <<>>, dest_type |-> ""] >>

FooFields ==
    << [name |-> "component", ty |-> "Component", include |-> TRUE,
        path |-> <<>>, dest_type |-> ""],
       [name |-> "other_component", ty |-> "OtherComponent", include |-> TRUE,
        path |-> <<>>, dest_type |-> ""],
       [name |-> "wrapper", ty |-> "Wrapper", include |-> TRUE,
        path |-> <<"wrapper", "some_other_component">>, dest_type |-> "SomeOtherComponent"],
       [name |-> "non_component", ty |-> "String", include |-> FALSE,
        path |-> <<>>, dest_type |-> ""] >>

\* The types the test (and a caller) may ask for.
QueriedTypes == {"Component", "OtherComponent", "SomeOtherComponent", "Wrapper", "String"}

\* The place a field's component lives at: the attribute's path, else the field.
FieldPath(f) == IF f.path # <<>> THEN f.path ELSE <<f.name>>

\* The type a field is offered as: the attribute's dest_type, else the field's type.
FieldComponentType(f) == IF f.dest_type # "" THEN f.dest_type ELSE f.ty

RECURSIVE GetPath(_, _)
GetPath(v, path) == IF path = <<>> THEN v ELSE GetPath(v[Head(path)], Tail(path))

RECURSIVE SetPath(_, _, _)
SetPath(v, path, x) ==
    IF path = <<>> THEN x
    ELSE [v EXCEPT ![Head(path)] = SetPath(v[Head(path)], Tail(path), x)]

NoneRef == [some |-> FALSE]

\* The derived query_component_ref / query_component_mut: the first included
\* field offered as type T, as a reference (the path into self), else None.
query_component(T) ==
    LET hits == {i \in DOMAIN FooFields :
                    FooFields[i].include /\ FieldComponentType(FooFields[i]) = T}
    IN IF hits = {} THEN NoneRef
       ELSE LET i == CHOOSE k \in hits : \A j \in hits : k <= j
            IN [some |-> TRUE, path |-> FieldPath(FooFields[i])]

\* A value of component type T whose scalar field is v.
MakeComponent(T, v) ==
    CASE T = "Component" -> [stuff |-> v]
      [] T = "String" -> v
      [] OTHER -> [other_stuff |-> v]

\* let mut foo = Foo { .. }
BuildFoo(a, b, c) ==
    /\ foo = None
    /\ foo' = [component |-> [stuff |-> a],
               other_component |-> [other_stuff |-> b],
               wrapper |-> [some_other_component |-> [other_stuff |-> c]],
               non_component |-> 0]
    /\ query' = [op |-> "build"]

\* (&foo as &dyn ComponentProvider).component_ref::<T>()
component_ref(T) ==
    /\ foo # None
    /\ query' = [op |-> "component_ref", ty |-> T, result |-> query_component(T)]
    /\ UNCHANGED foo

\* (&mut foo as &mut dyn ComponentProvider).component_mut::<T>()
component_mut(T) ==
    /\ foo # None
    /\ query' = [op |-> "component_mut", ty |-> T, result |-> query_component(T)]
    /\ UNCHANGED foo

\* The caller assigns through the reference component_mut returned.
WriteThroughRef(v) ==
    /\ foo # None
    /\ query.op = "component_mut" /\ query.result.some
    /\ foo' = SetPath(foo, query.result.path, MakeComponent(query.ty, v))
    /\ query' = [op |-> "write", ty |-> query.ty, result |-> query.result]

ComponentOthers ==
    UNCHANGED <<previewVars, tileVars, bitVars, gbufferVars, tileMapVars, uiVars>>

BuildFooStep == (\E a, b, c \in 0 .. MaxField : BuildFoo(a, b, c)) /\ ComponentOthers
ComponentRef == (\E T \in QueriedTypes : component_ref(T)) /\ ComponentOthers
ComponentMut == (\E T \in QueriedTypes : component_mut(T)) /\ ComponentOthers
WriteComponent == (\E v \in 0 .. MaxField : WriteThroughRef(v)) /\ ComponentOthers

NextComponent ==
    \/ BuildFooStep
    \/ ComponentRef
    \/ ComponentMut
    \/ WriteComponent


\* What a reference returned by a query points at.
Deref(r) == GetPath(foo, r.path)

DrawingModes ==
    {"Draw", "Erase", "FloodFill", "Pick", "RectFill", "NineSlice", "Line", "Editor"}
\* The modes the inspector is asked to set in this model.
ChosenModes == {"Draw", "Pick", "Editor"}

TileHandles == 1 .. NumTileHandles
Cells == 1 .. NumCells

\* enum SelectionSource, with Handle::NONE as the handle of the variant None.
SourceNone == [kind |-> "None", handle |-> NONE]
SourceWidget(h) == [kind |-> "Widget", handle |-> h]
SourceNode(h) == [kind |-> "Node", handle |-> h]

\* #[derive(Default)] TileDrawState
DefaultTileDrawState ==
    [dirty |-> FALSE,
     tile_set |-> NONE,
     stamp |-> {},
     drawing_mode |-> "Draw",
     active_editor |-> NONE,
     visible_colliders |-> {},
     random_mode |-> FALSE,
     selection |-> [source |-> SourceNone, positions |-> {}]]

\* into_mut as it would be if it did not set the flag.
into_mut_clean(s) == s

\* TileDrawStateGuard::into_mut (and lock_mut, which is lock().into_mut())
into_mut(s) == [s EXCEPT !.dirty = TRUE]

has_selection(s) == s.selection.positions # {}

selection_palette(s) ==
    IF s.selection.source.kind = "Widget" THEN s.selection.source.handle ELSE NONE

selection_node(s) ==
    IF s.selection.source.kind = "Node" THEN s.selection.source.handle ELSE NONE

\* set_palette as it would be if it kept a node source's handle beside the widget's.
set_palette_keep(s, h) ==
    [s EXCEPT !.selection.source =
        IF s.selection.source.kind = "Node" THEN s.selection.source ELSE SourceWidget(h)]

set_palette(s, h) == [s EXCEPT !.selection.source = SourceWidget(h)]

set_node(s, h) == [s EXCEPT !.selection.source = SourceNode(h)]

clear_selection(s) ==
    [s EXCEPT !.stamp = {}, !.selection.positions = {}, !.selection.source = SourceNone]

\* update_stamp: the stamp is rebuilt from the selected positions that hold a tile.
update_stamp(s, tile_set, tiles) ==
    [s EXCEPT !.tile_set = tile_set, !.stamp = s.selection.positions \cap tiles]

set_visible_collider(s, uuid, visible) ==
    [s EXCEPT !.visible_colliders = IF visible THEN @ \cup {uuid} ELSE @ \ {uuid}]

\* TileMapEditorPlugin::update_state: <<new state, whether into_mut was called>>
update_state(s) ==
    IF (CASE s.drawing_mode = "Pick" -> FALSE
          [] s.drawing_mode = "Editor" -> ~tile_set_editor
          [] OTHER -> ~panel)
    THEN <<[into_mut(s) EXCEPT !.drawing_mode = "Pick", !.active_editor = NONE], TRUE>>
    ELSE IF s.drawing_mode # "Editor" /\ s.active_editor # NONE
    THEN <<[into_mut(s) EXCEPT !.active_editor = NONE], TRUE>>
    ELSE <<s, FALSE>>

\* send_delayed_messages: <<messages left, contents sent>>. Every delay is
\* lowered (saturating), then the queue is scanned with swap_remove.
RECURSIVE ScanDelayed(_, _, _)
ScanDelayed(msgs, i, sent) ==
    IF i > Len(msgs) THEN <<msgs, sent>>
    ELSE IF msgs[i].delay_frames = 0
    THEN LET n == Len(msgs)
             swapped == [k \in 1 .. n - 1 |-> IF k = i THEN msgs[n] ELSE msgs[k]]
         IN ScanDelayed(swapped, i, Append(sent, msgs[i].content))
    ELSE ScanDelayed(msgs, i + 1, sent)

\* send_delayed_messages as it would be if the queue were scanned before the
\* delays are lowered.
send_delayed_messages_scan_first(msgs) ==
    LET scanned == ScanDelayed(msgs, 1, <<>>)
    IN <<[k \in DOMAIN scanned[1] |->
            [scanned[1][k] EXCEPT !.delay_frames = IF @ = 0 THEN 0 ELSE @ - 1]],
         scanned[2]>>

send_delayed_messages(msgs) ==
    ScanDelayed([k \in DOMAIN msgs |->
                    [msgs[k] EXCEPT !.delay_frames = IF @ = 0 THEN 0 ELSE @ - 1]],
                1, <<>>)

\* check_dirty as it would be if it left the flag set.
check_dirty_keep ==
    /\ tile_last' = [op |-> "check_dirty", result |-> tstate.dirty,
                     was_mutated |-> mutated,
                     after_check |-> tile_last.op = "check_dirty"]
    /\ mutated' = FALSE
    /\ UNCHANGED <<tstate, tile_set_editor, panel, delayed_messages, tile_ui_sent, dm_track>>

\* TileDrawStateRef::check_dirty
check_dirty ==
    /\ tile_last' = [op |-> "check_dirty", result |-> tstate.dirty,
                     was_mutated |-> mutated,
                     after_check |-> tile_last.op = "check_dirty"]
    /\ tstate' = [tstate EXCEPT !.dirty = FALSE]
    /\ mutated' = FALSE
    /\ UNCHANGED <<tile_set_editor, panel, delayed_messages, tile_ui_sent, dm_track>>

\* The delayed messages that are told apart, and DelayedMessage::message(n, content).
MsgIds == 1 .. NumMessages
DelayedMessage(n, id) == [delay_frames |-> n, content |-> [id |-> id]]

NotReceived == [received |-> FALSE, n |-> 0, age |-> 0, sent |-> 0, sent_age |-> 0]

\* How often content id occurs among the contents sent.
TimesSent(sent, id) == Cardinality({k \in DOMAIN sent : sent[k].id = id})

\* dm_track after an on_update that sent the contents sent.
Tracked(sent) ==
    [id \in MsgIds |->
        LET t == dm_track[id]
        IN IF ~t.received THEN t
           ELSE [t EXCEPT !.age = IF t.sent = 0 THEN @ + 1 ELSE @,
                          !.sent = @ + TimesSent(sent, id),
                          !.sent_age = IF TimesSent(sent, id) > 0 THEN t.age + 1 ELSE @]]

\* TileMapEditorPlugin::on_ui_message. A DelayedMessage is queued and the handler
\* returns; any other message is handed to the tile set editor and to the panel,
\* each of which stays or closes (returns None).
on_ui_message(message, editor_closes, panel_closes) ==
    IF message.kind = "DelayedMessage"
    THEN /\ ~dm_track[message.data.content.id].received
         /\ delayed_messages' = Append(delayed_messages, message.data)
         /\ dm_track' = [dm_track EXCEPT ![message.data.content.id] =
                            [NotReceived EXCEPT !.received = TRUE,
                                                !.n = message.data.delay_frames]]
         /\ tile_last' = [op |-> "on_ui_message", result |-> FALSE, was_mutated |-> FALSE,
                          after_check |-> FALSE, delayed |-> TRUE, forwarded |-> FALSE,
                          data |-> message.data]
         /\ UNCHANGED <<tstate, tile_set_editor, panel, tile_ui_sent, mutated>>
    ELSE /\ tile_set_editor' = (tile_set_editor /\ ~editor_closes)
         /\ panel' = (panel /\ ~panel_closes)
         /\ tile_last' = [op |-> "on_ui_message", result |-> FALSE, was_mutated |-> FALSE,
                          after_check |-> FALSE, delayed |-> FALSE, forwarded |-> TRUE,
                          data |-> message.data]
         /\ UNCHANGED <<tstate, delayed_messages, dm_track, tile_ui_sent, mutated>>

\* TileMapEditorPlugin::on_update: delayed messages, update_state, check_dirty
\* (the UI is synchronised to the state when it returns true).
on_update ==
    LET sent == send_delayed_messages(delayed_messages)
        upd == update_state(tstate)
    IN /\ delayed_messages' = sent[1]
       /\ tile_ui_sent' = sent[2]
       /\ dm_track' = Tracked(sent[2])
       /\ tile_last' = [op |-> "on_update", result |-> upd[1].dirty,
                        was_mutated |-> (mutated \/ upd[2]),
                        after_check |-> FALSE]
       /\ tstate' = [upd[1] EXCEPT !.dirty = FALSE]
       /\ mutated' = FALSE
       /\ UNCHANGED <<tile_set_editor, panel>>

\* The result record of an operation that changes the state through a guard.
Changed(op, h) ==
    [op |-> op, result |-> FALSE, was_mutated |-> FALSE, after_check |-> FALSE, handle |-> h]

\* A holder of the shared state takes lock_mut(reason) and changes the state
\* through the guard to s.
ThroughGuard(op, h, s) ==
    /\ tstate' = s
    /\ mutated' = TRUE
    /\ tile_last' = Changed(op, h)
    /\ UNCHANGED <<tile_set_editor, panel, delayed_messages, tile_ui_sent, dm_track>>

\* state.lock_mut(..).set_palette(h)
SetPalette(h) == ThroughGuard("set_palette", h, set_palette(into_mut(tstate), h))

\* state.lock_mut(..).set_node(h)
SetNode(h) == ThroughGuard("set_node", h, set_node(into_mut(tstate), h))

\* state.lock_mut(..).clear_selection()
ClearSelection == ThroughGuard("clear_selection", NONE, clear_selection(into_mut(tstate)))

\* state.lock_mut(..).selection_positions_mut().insert(c)
SelectCell(c) ==
    ThroughGuard("selection_positions_mut", NONE,
                 [into_mut(tstate) EXCEPT !.selection.positions = @ \cup {c}])

\* state.lock_mut(..).update_stamp(tile_set, tile_handle)
UpdateStamp(ts, tiles) ==
    ThroughGuard("update_stamp", NONE, update_stamp(into_mut(tstate), ts, tiles))

\* TileEditorState::touch: the state is taken, turned into a mutable guard and put
\* back; tile_last keeps the state as it was before.
touch ==
    /\ tstate' = into_mut(tstate)
    /\ mutated' = TRUE
    /\ tile_last' = [op |-> "touch", result |-> FALSE, was_mutated |-> FALSE,
                     after_check |-> FALSE, handle |-> NONE, before |-> tstate]
    /\ UNCHANGED <<tile_set_editor, panel, delayed_messages, tile_ui_sent, dm_track>>

\* TileEditorState::set_active_editor
set_active_editor(e) ==
    ThroughGuard("set_active_editor", NONE, [into_mut(tstate) EXCEPT !.active_editor = e])

\* TileEditorState::set_drawing_mode
set_drawing_mode(mode) ==
    ThroughGuard("set_drawing_mode", NONE, [into_mut(tstate) EXCEPT !.drawing_mode = mode])

\* TileEditorState::set_visible_collider
SetVisibleCollider(uuid, visible) ==
    ThroughGuard("set_visible_collider", NONE,
                 set_visible_collider(into_mut(tstate), uuid, visible))

\* The tile set editor and the panel are opened (on_message, open_panel_for_*)
\* or report that they were closed (on_ui_message stores the Option they return).
SetWindows(e, p) ==
    /\ <<e, p>> # <<tile_set_editor, panel>>
    /\ tile_set_editor' = e
    /\ panel' = p
    /\ tile_last' = Changed("windows", NONE)
    /\ UNCHANGED <<tstate, delayed_messages, tile_ui_sent, mutated, dm_track>>

TileOthers ==
    UNCHANGED <<previewVars, componentVars, bitVars, gbufferVars, tileMapVars, uiVars>>

DoSetPalette == (\E h \in {NONE} \cup TileHandles : SetPalette(h)) /\ TileOthers
DoSetNode == (\E h \in {NONE} \cup TileHandles : SetNode(h)) /\ TileOthers
DoClearSelection == ClearSelection /\ TileOthers
DoSelectCell == (\E c \in Cells : SelectCell(c)) /\ TileOthers
DoUpdateStamp == (\E ts \in {NONE, 1}, tiles \in SUBSET Cells : UpdateStamp(ts, tiles)) /\ TileOthers
DoTouch == touch /\ TileOthers
DoSetActiveEditor == (\E e \in {NONE, 1} : set_active_editor(e)) /\ TileOthers
DoSetDrawingMode == (\E mode \in ChosenModes : set_drawing_mode(mode)) /\ TileOthers
DoSetVisibleCollider == (\E visible \in BOOLEAN : SetVisibleCollider(1, visible)) /\ TileOthers
CheckDirty == check_dirty /\ TileOthers
OnUpdate == on_update /\ TileOthers
Windows == (\E e, p \in BOOLEAN : SetWindows(e, p)) /\ TileOthers

\* The UI messages that reach the plugin.
UiMessages ==
    {[kind |-> "DelayedMessage", data |-> DelayedMessage(n, id)] :
        n \in 0 .. MaxDelay, id \in MsgIds}
    \cup {[kind |-> "Other", data |-> "None"]}

OnUiMessage ==
    (\E message \in UiMessages, editor_closes, panel_closes \in BOOLEAN :
        on_ui_message(message, editor_closes, panel_closes))
    /\ TileOthers

\* The plugin with delayed messages only: they arrive and frames pass.
NextDelayed ==
    \/ OnUiMessage
    \/ OnUpdate

NextTile ==
    \/ DoSetPalette
    \/ DoSetNode
    \/ DoClearSelection
    \/ DoSelectCell
    \/ DoUpdateStamp
    \/ DoTouch
    \/ DoSetActiveEditor
    \/ DoSetDrawingMode
    \/ DoSetVisibleCollider
    \/ CheckDirty
    \/ OnUpdate
    \/ Windows

\* C5: the dirty flag is true exactly when the state has been changed and the
\* change has not yet caused the UI to update: check_dirty (alone or inside
\* on_update) returns true iff a lock_mut/into_mut happened since the previous
\* check_dirty, it resets the flag, and a check_dirty right after another
\* returns false.
C5_DirtyFlag ==
    /\ tstate.dirty = mutated
    /\ tile_last.op \in {"check_dirty", "on_update"} =>
          /\ tile_last.result = tile_last.was_mutated
          /\ ~tstate.dirty
    /\ tile_last.op = "check_dirty" /\ tile_last.after_check => ~tile_last.result

\* check_dirty returned true after cells had been selected through a guard.
C5_Witness ==
    /\ tile_last.op = "check_dirty" /\ tile_last.result /\ tile_last.was_mutated
    /\ has_selection(tstate)

\* C12: TileEditorState::touch forces the UI to update as if the state had
\* changed: after it the dirty flag is set, every other field of the draw state
\* (drawing mode, active editor, visible colliders, random mode, selection,
\* stamp, tile set) is as before, and a check_dirty that comes next (alone or
\* inside on_update) returns true.
C12_TouchForcesUpdate ==
    /\ [](tile_last.op = "touch" =>
            /\ tstate.dirty
            /\ tstate = [tile_last.before EXCEPT !.dirty = TRUE])
    /\ [][(tile_last.op = "touch" /\ tile_last'.op \in {"check_dirty", "on_update"})
            => tile_last'.result]_vars

\* touch was called on a clean state with cells selected, in editor mode.
C12_Witness ==
    /\ tile_last.op = "touch"
    /\ ~tile_last.before.dirty
    /\ tstate.dirty
    /\ has_selection(tstate)
    /\ tstate.drawing_mode = "Editor"

\* The entries of the queue that hold content id.
Queued(id) == {k \in DOMAIN delayed_messages : delayed_messages[k].content.id = id}

\* The on_update in which a message with delay n is due.
DueAt(n) == IF n = 0 THEN 1 ELSE n

\* C14: a DelayedMessage with delay_frames = n received by on_ui_message is
\* queued and not forwarded to the tile set editor or the panel; its content is
\* sent to the UI exactly once, during the n-th on_update after it was received
\* (the first when n is 0 or 1), and it leaves the queue when it is sent: no
\* delayed message is lost or sent twice.
C14_DelayedOnce ==
    /\ (tile_last.op = "on_ui_message" /\ tile_last.delayed) =>
          /\ ~tile_last.forwarded
          /\ Len(delayed_messages) > 0
          /\ delayed_messages[Len(delayed_messages)] = tile_last.data
    /\ \A id \in MsgIds :
          LET t == dm_track[id]
          IN /\ ~t.received => (Queued(id) = {} /\ t.sent = 0)
             /\ (t.received /\ t.sent = 0) =>
                   /\ Cardinality(Queued(id)) = 1
                   /\ t.age < DueAt(t.n)
             /\ (t.received /\ t.sent > 0) =>
                   /\ t.sent = 1
                   /\ t.sent_age = DueAt(t.n)
                   /\ Queued(id) = {}
    /\ tile_last.op = "on_update" =>
          \A k \in DOMAIN tile_ui_sent :
              /\ dm_track[tile_ui_sent[k].id].sent_age = dm_track[tile_ui_sent[k].id].age
              /\ TimesSent(tile_ui_sent, tile_ui_sent[k].id) = 1

\* Three messages with delays 2, 0 and 2 were queued and all have been sent, the
\* two with delay 2 together by the on_update that ran last.
C14_Witness ==
    /\ tile_last.op = "on_update"
    /\ Len(tile_ui_sent) = 2
    /\ delayed_messages = <<>>
    /\ dm_track[1].n = 2 /\ dm_track[2].n = 0 /\ dm_track[3].n = 2
    /\ \A id \in 1 .. 3 : dm_track[id].sent = 1
    /\ dm_track[1].sent_age = 2 /\ dm_track[3].sent_age = 2

\* C10: the selection comes from a palette widget or from a tile map node, never
\* both: at most one of selection_palette() and selection_node() differs from
\* Handle::NONE; set_palette(h) gives selection_palette() = h and
\* selection_node() = NONE, set_node(h) the converse; after clear_selection()
\* both are NONE, has_selection() is false and the stamp is empty.
C10_SelectionSource ==
    /\ selection_palette(tstate) = NONE \/ selection_node(tstate) = NONE
    /\ tile_last.op = "set_palette" =>
          selection_palette(tstate) = tile_last.handle /\ selection_node(tstate) = NONE
    /\ tile_last.op = "set_node" =>
          selection_node(tstate) = tile_last.handle /\ selection_palette(tstate) = NONE
    /\ tile_last.op = "clear_selection" =>
          /\ selection_palette(tstate) = NONE /\ selection_node(tstate) = NONE
          /\ ~has_selection(tstate)
          /\ tstate.stamp = {}

\* A palette took the selection over from a tile map node that had cells selected
\* and stamped.
C10_Witness ==
    /\ tile_last.op = "set_palette" /\ tile_last.handle = NumTileHandles
    /\ has_selection(tstate) /\ tstate.stamp # {}

\* ========================================================================
\* BitField widget                                   (fyrox-ui/src/bit.rs)
\* ========================================================================

\* mem::size_of::<T>() of the modelled bit container, T = u8.
SizeOfT == 1
\* mem::size_of::<T>() * 8
BitCount == SizeOfT * 8
\* The number of values of T.
Modulus == 2 ^ BitCount

\* Bit j of v, by arithmetic.
Bit(v, j) == (v \div (2 ^ j)) % 2

\* T's operators &, |, ! and <<
RECURSIVE BitAndN(_, _, _)
BitAndN(a, b, n) ==
    IF n = 0 THEN 0
    ELSE (a % 2) * (b % 2) + 2 * BitAndN(a \div 2, b \div 2, n - 1)

RECURSIVE BitOrN(_, _, _)
BitOrN(a, b, n) ==
    IF n = 0 THEN 0
    ELSE (IF a % 2 = 1 \/ b % 2 = 1 THEN 1 ELSE 0) + 2 * BitOrN(a \div 2, b \div 2, n - 1)

BitAnd(a, b) == BitAndN(a, b, BitCount)
BitOr(a, b) == BitOrN(a, b, BitCount)
BitNot(a) == Modulus - 1 - a

\* T::from(index).unwrap_or_default(): the index as a T, 0 when it does not fit.
IndexAsT(index) == IF index < Modulus THEN index ELSE 0

\* T::one() << T::from(index).unwrap_or_default()
OneShl(index) == (2 ^ IndexAsT(index)) % Modulus

\* set_bit as it would be with the mask of the next bit.
set_bit_next(value, index) == BitOr(value, OneShl(index + 1))

set_bit(value, index) == BitOr(value, OneShl(index))

reset_bit(value, index) == BitAnd(value, BitNot(OneShl(index)))

is_bit_set(value, index) == BitAnd(value, OneShl(index)) # 0

\* Handles of the nodes the builder creates, in creation order, and of a node
\* that is none of them.
SwitchHandle(i) == i + 1
PanelHandle == BitCount + 1
BitFieldHandle == BitCount + 2
OtherHandle == BitCount + 3

\* BitField::bit_switches
bit_switches == [k \in 1 .. BitCount |-> SwitchHandle(k - 1)]

\* bit_switches.iter().position(|s| *s == destination): the index, or -1.
position(dest) ==
    IF \E k \in DOMAIN bit_switches : bit_switches[k] = dest
    THEN (CHOOSE k \in DOMAIN bit_switches :
             /\ bit_switches[k] = dest
             /\ \A j \in DOMAIN bit_switches : bit_switches[j] = dest => k <= j) - 1
    ELSE -1

\* Option<bool> of CheckBoxMessage::Check: Some(true), Some(false) or None.
Some(b) == IF b THEN "true" ELSE "false"

CheckMsg(dest, dir, state) == [kind |-> "Check", dest |-> dest, dir |-> dir, state |-> state]
ValueMsg(dest, dir, v) == [kind |-> "Value", dest |-> dest, dir |-> dir, value |-> v]
MouseDownMsg(over, button) == [kind |-> "MouseDown", over |-> over, button |-> button]

\* message.reverse()
reverse(m) == [m EXCEPT !.dir = IF @ = "ToWidget" THEN "FromWidget" ELSE "ToWidget"]

\* sync_switches as it would be if every switch were sent the state of the next bit.
sync_switches_next(value) ==
    [k \in 1 .. BitCount |->
        CheckMsg(bit_switches[k], "ToWidget", Some(is_bit_set(value, k)))]

\* BitField::sync_switches: the messages sent, in order.
sync_switches(value) ==
    [k \in 1 .. BitCount |->
        CheckMsg(bit_switches[k], "ToWidget", Some(is_bit_set(value, k - 1)))]

\* The MouseDown arm: one request per switch that has the destination below it.
RECURSIVE MouseDownRequests(_, _, _)
MouseDownRequests(value, over, index) ==
    IF index >= BitCount THEN <<>>
    ELSE (IF over = SwitchHandle(index)
          THEN <<ValueMsg(BitFieldHandle, "ToWidget",
                          IF is_bit_set(value, index)
                          THEN BitNot(OneShl(index)) ELSE OneShl(index))>>
          ELSE <<>>)
         \o MouseDownRequests(value, over, index + 1)

\* BitField::handle_routed_message: <<new value, messages sent>>
handle_routed_message(value, m) ==
    CASE m.kind = "Check" /\ m.state # "None" ->
           IF m.dir = "FromWidget" /\ position(m.dest) >= 0
           THEN <<value,
                  <<ValueMsg(BitFieldHandle, "ToWidget",
                             IF m.state = "true"
                             THEN set_bit(value, position(m.dest))
                             ELSE reset_bit(value, position(m.dest)))>>>>
           ELSE <<value, <<>>>>
      [] m.kind = "Value" ->
           IF m.dest = BitFieldHandle /\ m.dir = "ToWidget" /\ m.value # value
           THEN <<m.value, sync_switches(m.value) \o <<reverse(m)>>>>
           ELSE <<value, <<>>>>
      [] m.kind = "MouseDown" ->
           IF m.button = "Right"
           THEN <<value, MouseDownRequests(value, m.over, 0)>>
           ELSE <<value, <<>>>>
      [] OTHER -> <<value, <<>>>>

\* The handles of the bit switches.
SwitchHandles == {SwitchHandle(i) : i \in 0 .. BitCount - 1}

\* A user interface without widgets.
NoNodes == [h \in {} |-> NONE]

\* The nodes BitFieldBuilder::build creates.
BuiltNodes == SwitchHandles \cup {PanelHandle, BitFieldHandle}

\* The tree build would make if the panel were not made a child of the widget.
BuiltTreePanelUnlinked ==
    [h \in BuiltNodes |-> IF h \in SwitchHandles THEN PanelHandle ELSE NONE]

\* The tree build makes: the switches are the children of the wrap panel, the
\* panel is the child of the BitField's widget, the BitField is added on top.
BuiltTree ==
    [h \in BuiltNodes |->
        IF h \in SwitchHandles THEN PanelHandle
        ELSE IF h = PanelHandle THEN BitFieldHandle
        ELSE NONE]

\* h is below ancestor in the tree parent.
RECURSIVE IsDescendant(_, _, _, _)
IsDescendant(h, ancestor, parent, fuel) ==
    /\ fuel > 0
    /\ h \in DOMAIN parent
    /\ parent[h] # NONE
    /\ \/ parent[h] = ancestor
       \/ IsDescendant(parent[h], ancestor, parent, fuel - 1)

has_descendant(ancestor, h, parent) ==
    IsDescendant(h, ancestor, parent, Cardinality(DOMAIN parent))

\* Removing node h from the user interface removes it with all its descendants.
remove_node(h, parent) ==
    [n \in {k \in DOMAIN parent : k # h /\ ~has_descendant(h, k, parent)} |-> parent[n]]

\* test_widget_deletion: the widget the builder returned is removed.
remove ==
    /\ bf_built
    /\ BitFieldHandle \in DOMAIN bf_parent
    /\ bf_parent' = remove_node(BitFieldHandle, bf_parent)
    /\ bf_last' = [kind |-> "remove", before |-> bf_value]
    /\ bf_out' = <<>>
    /\ UNCHANGED <<bf_built, bf_value, bf_checked>>

\* BitFieldBuilder::with_value(v).build(ctx)
build(v) ==
    /\ ~bf_built
    /\ bf_built' = TRUE
    /\ bf_parent' = BuiltTree
    /\ bf_checked' = [k \in 1 .. BitCount |-> is_bit_set(v, k - 1)]
    /\ bf_value' = v
    /\ bf_last' = [kind |-> "build", value |-> v]
    /\ bf_out' = <<>>

\* The user interface routes message m to the BitField.
Route(m) ==
    LET r == handle_routed_message(bf_value, m)
    IN /\ bf_built
       /\ BitFieldHandle \in DOMAIN bf_parent
       /\ bf_value' = r[1]
       /\ bf_out' = r[2]
       /\ bf_last' = [kind |-> m.kind, msg |-> m, before |-> bf_value]
       /\ UNCHANGED <<bf_built, bf_checked, bf_parent>>

\* Values with_value is called with, and values other widgets send.
BuildValues == {0, 165}
SentValues == {0, 90, Modulus - 1}

\* Check box messages that reach the BitField: a switch or another check box
\* reports a change, or is told its state.
CheckMessages ==
    {CheckMsg(dest, "FromWidget", state) :
        dest \in SwitchHandles \cup {OtherHandle}, state \in {"true", "false", "None"}}
    \cup {CheckMsg(dest, "ToWidget", "true") : dest \in SwitchHandles}

\* BitFieldMessage::Value messages that reach the BitField.
ValueMessages ==
    {ValueMsg(BitFieldHandle, "ToWidget", v) : v \in SentValues}
    \cup {ValueMsg(OtherHandle, "ToWidget", 0), ValueMsg(BitFieldHandle, "FromWidget", 0)}

\* Mouse presses below a switch or elsewhere.
MouseDownMessages ==
    {MouseDownMsg(over, "Right") : over \in SwitchHandles \cup {OtherHandle}}
    \cup {MouseDownMsg(SwitchHandle(0), "Left")}

BitOthers ==
    UNCHANGED <<previewVars, componentVars, tileVars, gbufferVars, tileMapVars, uiVars>>

Build == (\E v \in BuildValues : build(v)) /\ BitOthers
RouteCheck == (\E m \in CheckMessages : Route(m)) /\ BitOthers
RouteValue == (\E m \in ValueMessages : Route(m)) /\ BitOthers
RouteRequested ==
    (\E k \in DOMAIN bf_out : bf_out[k].kind = "Value" /\ Route(bf_out[k])) /\ BitOthers
RouteMouseDown == (\E m \in MouseDownMessages : Route(m)) /\ BitOthers
Remove == remove /\ BitOthers

NextBit ==
    \/ Build
    \/ RouteCheck
    \/ RouteValue
    \/ RouteRequested
    \/ RouteMouseDown
    \/ Remove

\* The last routed message was a BitFieldMessage::Value the BitField accepted.
AcceptedValue ==
    /\ bf_last.kind = "Value"
    /\ bf_last.msg.dest = BitFieldHandle
    /\ bf_last.msg.dir = "ToWidget"
    /\ bf_last.msg.value # bf_last.before

\* C6: the BitField shows its value as individual bits: the builder creates
\* 8 * size_of::<T>() switches, switch i checked iff bit i of the initial value
\* is set, and whenever the BitField accepts a BitFieldMessage::Value (ToWidget,
\* addressed to it, different from the stored value) it stores the value and
\* sends every switch i a CheckBoxMessage::checked with the state of bit i.
C6_ShowsBits ==
    /\ bf_built => Len(bf_checked) = 8 * SizeOfT /\ Len(bit_switches) = 8 * SizeOfT
    /\ bf_last.kind = "build" =>
          /\ bf_value = bf_last.value
          /\ \A i \in 0 .. 8 * SizeOfT - 1 : bf_checked[i + 1] = (Bit(bf_last.value, i) = 1)
    /\ AcceptedValue =>
          /\ bf_value = bf_last.msg.value
          /\ \A i \in 0 .. 8 * SizeOfT - 1 :
                \E k \in DOMAIN bf_out :
                    bf_out[k] = CheckMsg(SwitchHandle(i), "ToWidget", Some(Bit(bf_value, i) = 1))
          /\ \A k \in DOMAIN bf_out :
                bf_out[k].kind = "Check" =>
                    /\ bf_out[k].dest \in SwitchHandles
                    /\ bf_out[k].state = Some(Bit(bf_value, bf_out[k].dest - 1) = 1)

\* A value with other bits than the stored one was accepted and sent on.
C6_Witness ==
    /\ AcceptedValue
    /\ bf_last.before = 165 /\ bf_value = 90
    /\ Len(bf_out) = BitCount + 1

\* C7: the BitField allows switching separate bits: when switch i reports
\* CheckBoxMessage::Check(Some(b)) FromWidget, the BitField requests its current
\* value with bit i set to b and every other bit unchanged; for every value v
\* and index i below the bit width is_bit_set(set_bit(v, i), i) is true,
\* is_bit_set(reset_bit(v, i), i) is false, and both leave every bit j # i as in v.
C7_SwitchBits ==
    /\ ( /\ bf_last.kind = "Check"
         /\ bf_last.msg.dir = "FromWidget"
         /\ bf_last.msg.dest \in SwitchHandles
         /\ bf_last.msg.state # "None" ) =>
          /\ bf_value = bf_last.before
          /\ Len(bf_out) = 1
          /\ bf_out[1].kind = "Value"
          /\ bf_out[1].dest = BitFieldHandle /\ bf_out[1].dir = "ToWidget"
          /\ \A j \in 0 .. BitCount - 1 :
                Bit(bf_out[1].value, j) =
                    IF j = bf_last.msg.dest - 1
                    THEN (IF bf_last.msg.state = "true" THEN 1 ELSE 0)
                    ELSE Bit(bf_value, j)
    /\ bf_built =>
          \A i \in 0 .. BitCount - 1 :
             /\ is_bit_set(set_bit(bf_value, i), i)
             /\ ~is_bit_set(reset_bit(bf_value, i), i)
             /\ \A j \in (0 .. BitCount - 1) \ {i} :
                   /\ Bit(set_bit(bf_value, i), j) = Bit(bf_value, j)
                   /\ Bit(reset_bit(bf_value, i), j) = Bit(bf_value, j)

\* The highest switch reported that it was unchecked while its bit was set.
C7_Witness ==
    /\ bf_last.kind = "Check"
    /\ bf_last.msg = CheckMsg(SwitchHandle(BitCount - 1), "FromWidget", "false")
    /\ bf_value = 219
    /\ bf_out = <<ValueMsg(BitFieldHandle, "ToWidget", 91)>>

\* C13: deleting a BitField deletes everything its builder created: every node
\* BitFieldBuilder::build creates (the bit switches and the wrap panel) is a
\* descendant of the returned BitField node while that node lives, and after the
\* returned node is removed no node the builder created remains alive.
C13_DeletionIsComplete ==
    /\ (bf_built /\ BitFieldHandle \in DOMAIN bf_parent) =>
          \A h \in BuiltNodes \ {BitFieldHandle} :
              /\ h \in DOMAIN bf_parent
              /\ has_descendant(BitFieldHandle, h, bf_parent)
    /\ bf_last.kind = "remove" => DOMAIN bf_parent \cap BuiltNodes = {}

\* The BitField was removed after its value had been changed by a message.
C13_Witness ==
    /\ bf_last.kind = "remove"
    /\ bf_built
    /\ bf_value = 90
    /\ bf_parent = NoNodes

\* ========================================================================
\* G-buffer (fyrox-impl/src/renderer/gbuffer/mod.rs)
\* ========================================================================

\* The layout the module documents, RT0 .. RT4.
GBufferLayout == <<"SRGBA8", "RGBA8", "RGBA16F", "RGBA8", "R8UI">>

\* The textures GBuffer::new creates, in creation order.
DepthStencilTex == 1
DiffuseTex == 2
NormalTex == 3
AmbientTex == 4
DecalMaskTex == 5
MaterialTex == 6
TextureIds == {DepthStencilTex, DiffuseTex, NormalTex, AmbientTex, DecalMaskTex, MaterialTex}

\* PixelKind each create_texture call of GBuffer::new is given.
PixelKindOf ==
    [t \in TextureIds |->
        CASE t = DepthStencilTex -> "D24S8"
          [] t = DiffuseTex -> "RGBA8"
          [] t = NormalTex -> "RGBA8"
          [] t = AmbientTex -> "RGBA16F"
          [] t = DecalMaskTex -> "R8UI"
          [] t = MaterialTex -> "RGBA8"]

\* server.create_texture(Rectangle { width, height }, kind, ..., None): no data is
\* given, so the content is whatever the driver leaves there.
create_texture(kind, width, height, content) ==
    [pixel_kind |-> kind, width |-> width, height |-> height, content |-> content]

\* FrameBuffer::new for GBuffer::framebuffer.
MainFrameBuffer ==
    [depth |-> DepthStencilTex,
     color |-> <<DiffuseTex, NormalTex, AmbientTex, MaterialTex, DecalMaskTex>>]

\* The decal framebuffer as it would be with the ambient texture attached as well.
DecalFrameBufferWithAmbient ==
    [depth |-> NONE, color |-> <<DiffuseTex, NormalTex, AmbientTex>>]

\* FrameBuffer::new for GBuffer::decal_framebuffer.
DecalFrameBuffer ==
    [depth |-> NONE, color |-> <<DiffuseTex, NormalTex>>]

\* The DrawParameters every decal is drawn with.
DecalDrawParameters ==
    [cull_face |-> "None", color_write |-> TRUE, depth_write |-> FALSE,
     stencil_test |-> "None", depth_test |-> "None", blend |-> "SrcAlpha, OneMinusSrcAlpha"]

\* The accessors of GBuffer.
depth == gb_framebuffer.depth
diffuse_texture == gb_framebuffer.color[1]
normal_texture == gb_framebuffer.color[2]
ambient_texture == gb_framebuffer.color[3]
material_texture == gb_framebuffer.color[4]
decal_mask_texture == gb_framebuffer.color[5]

Pixels == 0 .. MaxPixel
Resolutions == {<<1, 1>>, <<2, 1>>}

\* The textures attached to a framebuffer.
ColorTextures(fb) == {fb.color[k] : k \in DOMAIN fb.color}
Attachments(fb) == ColorTextures(fb) \cup (IF fb.depth = NONE THEN {} ELSE {fb.depth})

\* The textures a draw call on fb may write: the color attachments unless color
\* writing is masked out, the depth attachment if there is one and depth is written.
Written(fb, params) ==
    (IF params.color_write THEN ColorTextures(fb) ELSE {})
    \cup (IF fb.depth # NONE /\ params.depth_write THEN {fb.depth} ELSE {})

\* The contents of all textures.
Contents == [t \in DOMAIN gb_textures |-> gb_textures[t].content]

\* FrameBuffer::clear(viewport, Some(color), Some(depth), Some(stencil))
clear(fb) ==
    [t \in DOMAIN gb_textures |->
        IF t \in Attachments(fb) THEN [gb_textures[t] EXCEPT !.content = 0] ELSE gb_textures[t]]

\* FrameBuffer::draw: what it writes takes the contents the shader produces.
draw(fb, params, produced) ==
    [t \in DOMAIN gb_textures |->
        IF t \in Written(fb, params)
        THEN [gb_textures[t] EXCEPT !.content = produced[t]]
        ELSE gb_textures[t]]

\* GBuffer::new(server, width, height)
new(width, height, content) ==
    /\ gb_pc = "idle"
    /\ gb_textures' = [t \in 1 .. Cardinality(TextureIds) |->
                          create_texture(PixelKindOf[t], width, height, content[t])]
    /\ gb_framebuffer' = MainFrameBuffer
    /\ gb_decal_framebuffer' = DecalFrameBuffer
    /\ gb_width' = width
    /\ gb_height' = height
    /\ gb_created' = TRUE
    /\ UNCHANGED <<gb_pc, gb_bundles_left, gb_decals_left, gb_before>>

\* GBuffer::fill up to its bundle loop: the main framebuffer is cleared. bundles is
\* the number of deferred bundles of the frame.
fill_clear(bundles) ==
    /\ gb_created
    /\ gb_pc = "idle"
    /\ gb_textures' = clear(gb_framebuffer)
    /\ gb_pc' = "bundles"
    /\ gb_bundles_left' = bundles
    /\ UNCHANGED <<gb_created, gb_framebuffer, gb_decal_framebuffer, gb_width, gb_height,
                   gb_decals_left, gb_before>>

\* One turn of the bundle loop: bundle.render_to_frame_buffer on self.framebuffer,
\* with the draw parameters of the bundle's material.
fill_bundle(depth_write, produced) ==
    /\ gb_pc = "bundles"
    /\ gb_bundles_left > 0
    /\ gb_textures' = draw(gb_framebuffer,
                           [color_write |-> TRUE, depth_write |-> depth_write], produced)
    /\ gb_bundles_left' = gb_bundles_left - 1
    /\ UNCHANGED <<gb_created, gb_framebuffer, gb_decal_framebuffer, gb_width, gb_height,
                   gb_pc, gb_decals_left, gb_before>>

\* The bundle loop is over (the occlusion test only reads the framebuffer); depth
\* and decal mask are fetched and the decal loop begins over the decals Decal nodes
\* of the graph.
fill_begin_decals(decals) ==
    /\ gb_pc = "bundles"
    /\ gb_bundles_left = 0
    /\ gb_pc' = "decals"
    /\ gb_decals_left' = decals
    /\ gb_before' = Contents
    /\ UNCHANGED <<gb_created, gb_textures, gb_framebuffer, gb_decal_framebuffer, gb_width,
                   gb_height, gb_bundles_left>>

\* One turn of the decal loop: self.decal_framebuffer.draw(unit_cube, ...)
fill_decal(produced) ==
    /\ gb_pc = "decals"
    /\ gb_decals_left > 0
    /\ gb_textures' = draw(gb_decal_framebuffer, DecalDrawParameters, produced)
    /\ gb_decals_left' = gb_decals_left - 1
    /\ UNCHANGED <<gb_created, gb_framebuffer, gb_decal_framebuffer, gb_width, gb_height,
                   gb_pc, gb_bundles_left, gb_before>>

\* The decal loop is over: fill returns Ok(statistics).
fill_return ==
    /\ gb_pc = "decals"
    /\ gb_decals_left = 0
    /\ gb_pc' = "idle"
    /\ gb_before' = <<>>
    /\ UNCHANGED <<gb_created, gb_textures, gb_framebuffer, gb_decal_framebuffer, gb_width,
                   gb_height, gb_bundles_left, gb_decals_left>>

GBufferOthers ==
    UNCHANGED <<previewVars, componentVars, tileVars, bitVars, tileMapVars, uiVars>>

New ==
    (\E r \in Resolutions, content \in [TextureIds -> Pixels] : new(r[1], r[2], content))
    /\ GBufferOthers
FillClear == (\E bundles \in 0 .. NumBundles : fill_clear(bundles)) /\ GBufferOthers
FillBundle ==
    (\E depth_write \in BOOLEAN, produced \in [Attachments(gb_framebuffer) -> Pixels] :
        fill_bundle(depth_write, produced))
    /\ GBufferOthers
FillBeginDecals == (\E decals \in 0 .. NumDecals : fill_begin_decals(decals)) /\ GBufferOthers
FillDecal ==
    (\E produced \in [Attachments(gb_decal_framebuffer) -> Pixels] : fill_decal(produced))
    /\ GBufferOthers
FillReturn == fill_return /\ GBufferOthers

NextGBuffer ==
    \/ New
    \/ FillClear
    \/ FillBundle
    \/ FillBeginDecals
    \/ FillDecal
    \/ FillReturn

\* C8: the color attachments of the G-buffer follow the documented layout (RT0
\* sRGBA8 diffuse, RT1 RGBA8 normal, RT2 RGBA16F ambient/emission, RT3 RGBA8
\* material, RT4 R8UI decal mask), and diffuse_texture, normal_texture,
\* ambient_texture, material_texture and decal_mask_texture return attachments
\* 0, 1, 2, 3 and 4, the textures created for those purposes.
C8_DocumentedLayout ==
    gb_created =>
        /\ Len(gb_framebuffer.color) = Len(GBufferLayout)
        /\ \A k \in DOMAIN GBufferLayout :
              gb_textures[gb_framebuffer.color[k]].pixel_kind = GBufferLayout[k]
        /\ diffuse_texture = DiffuseTex
        /\ normal_texture = NormalTex
        /\ ambient_texture = AmbientTex
        /\ material_texture = MaterialTex
        /\ decal_mask_texture = DecalMaskTex

\* C9: decals do not modify depth, only the diffuse and normal maps: the decal
\* framebuffer has exactly two color attachments, the very textures of RT0 and
\* RT1 of the main framebuffer, and no depth attachment; decals are drawn with
\* depth_write = false; during the decal loop the depth, ambient, material and
\* decal-mask textures keep the contents they had when the loop began.
C9_DecalsKeepDepth ==
    gb_created =>
        /\ Len(gb_decal_framebuffer.color) = 2
        /\ gb_decal_framebuffer.color[1] = gb_framebuffer.color[1]
        /\ gb_decal_framebuffer.color[2] = gb_framebuffer.color[2]
        /\ gb_decal_framebuffer.depth = NONE
        /\ DecalDrawParameters.depth_write = FALSE
        /\ gb_pc = "decals" =>
              \A t \in {depth, ambient_texture, material_texture, decal_mask_texture} :
                  gb_textures[t].content = gb_before[t]

\* Every decal of the frame has been drawn, and diffuse and normal map differ from
\* what the bundles left there.
C9_Witness ==
    /\ gb_pc = "decals"
    /\ gb_decals_left = 0
    /\ gb_textures[diffuse_texture].content # gb_before[diffuse_texture]
    /\ gb_textures[normal_texture].content # gb_before[normal_texture]
    /\ gb_textures[depth].content # 0

\* ========================================================================
\* Tile map editor plugin: the edited tile map (editor/src/plugins/tilemap/mod.rs)
\* One game scene is open and is the current scene entry.
\* ========================================================================

SceneNodes == 1 .. NumSceneNodes
\* The nodes n with n.component_ref::<TileMap>().is_some()
TileMapNodes == 1 .. NumTileMaps

\* entry.selection: a graph selection with its nodes, or a selection of another
\* kind (as_graph() is None).
GraphSelection(nodes) == [graph |-> TRUE, nodes |-> nodes]
NotGraphSelection == [graph |-> FALSE, nodes |-> <<>>]
Selections ==
    {NotGraphSelection, GraphSelection(<<>>)}
    \cup {GraphSelection(<<a>>) : a \in SceneNodes}
    \cup {GraphSelection(<<p[1], p[2]>>) :
             p \in {q \in SceneNodes \X SceneNodes : q[1] # q[2]}}

\* selection.nodes().iter().copied().find(|h| graph.try_get(*h) is a TileMap)
FindTileMap(nodes, alive) ==
    LET found == {k \in DOMAIN nodes : nodes[k] \in alive /\ nodes[k] \in TileMapNodes}
    IN IF found = {} THEN NONE
       ELSE nodes[CHOOSE k \in found : \A j \in found : k <= j]

\* get_tile_map_mut(editor).is_some()
get_tile_map_mut(handle, alive) == handle \in alive /\ handle \in TileMapNodes

\* on_tile_map_selected(handle, editor), applied to the node data nd.
on_tile_map_selected(handle, nd) ==
    /\ tm_tile_map' = handle
    /\ IF get_tile_map_mut(handle, tm_alive)
       THEN /\ tm_node_data' = [nd EXCEPT ![handle] = TRUE]
            /\ tm_editor_data' = TRUE
            /\ tm_mode' = handle
       ELSE /\ tm_node_data' = nd
            /\ tm_mode' = NONE
            /\ UNCHANGED tm_editor_data

\* TileMapEditorPlugin::on_message, from the current scene entry on (the messages
\* that open the tile set editor or the panel are handled with the windows).
on_message(message) ==
    /\ tm_last' = message
    /\ UNCHANGED <<tm_selection, tm_alive>>
    /\ IF ~tm_selection.graph
       THEN UNCHANGED <<tm_node_data, tm_tile_map, tm_editor_data, tm_mode>>
       ELSE IF message = "SelectionChanged"
       THEN LET cleared == IF get_tile_map_mut(tm_tile_map, tm_alive)
                           THEN [tm_node_data EXCEPT ![tm_tile_map] = FALSE]
                           ELSE tm_node_data
                handle == FindTileMap(tm_selection.nodes, tm_alive)
            IN IF handle # NONE
               THEN on_tile_map_selected(handle, cleared)
               ELSE /\ tm_node_data' = cleared
                    /\ tm_mode' = NONE
                    /\ UNCHANGED <<tm_tile_map, tm_editor_data>>
       ELSE UNCHANGED <<tm_node_data, tm_tile_map, tm_editor_data, tm_mode>>

\* The editor changes the selection of the scene entry.
ChangeSelection(sel) ==
    /\ sel # tm_selection
    /\ tm_selection' = sel
    /\ tm_last' = "ChangeSelection"
    /\ UNCHANGED <<tm_alive, tm_node_data, tm_tile_map, tm_editor_data, tm_mode>>

\* A node is deleted from the graph, with what it holds.
RemoveNode(h) ==
    /\ h \in tm_alive
    /\ tm_alive' = tm_alive \ {h}
    /\ tm_node_data' = [tm_node_data EXCEPT ![h] = FALSE]
    /\ tm_last' = "RemoveNode"
    /\ UNCHANGED <<tm_selection, tm_tile_map, tm_editor_data, tm_mode>>

TileMapOthers ==
    UNCHANGED <<previewVars, componentVars, tileVars, bitVars, gbufferVars, uiVars>>

SelectionChanges == (\E sel \in Selections : ChangeSelection(sel)) /\ TileMapOthers
OnMessage ==
    (\E message \in {"SelectionChanged", "SetInteractionMode"} : on_message(message))
    /\ TileMapOthers
NodeRemoved == (\E h \in SceneNodes : RemoveNode(h)) /\ TileMapOthers

NextTileMap ==
    \/ SelectionChanges
    \/ OnMessage
    \/ NodeRemoved

\* C11: after a SelectionChanged message is handled, a tile map node holds editor
\* data only if it is part of the current selection, and a TileMapInteractionMode
\* is installed only for a tile map of the current selection.
C11_EditorDataOnlySelected ==
    tm_last = "SelectionChanged" =>
        LET selected == IF tm_selection.graph
                        THEN {tm_selection.nodes[k] : k \in DOMAIN tm_selection.nodes}
                        ELSE {}
        IN /\ \A h \in TileMapNodes \cap tm_alive : tm_node_data[h] => h \in selected
           /\ tm_mode # NONE => tm_mode \in selected

\* ========================================================================
\* UI renderer (fyrox-impl/src/renderer/ui_renderer.rs)
\* ========================================================================

UiPixels == 1 .. NumPixels

\* The largest value of the 8 bit stencil buffer.
StencilMax == 255

\* A command of the drawing context: its clipping geometry (None, or for every
\* pixel the number of clipping triangles that cover it) and the pixels its
\* triangles cover.
Commands ==
    {[clipping_geometry |-> c, triangles |-> t] :
        c \in {None} \cup {[cover |-> f] : f \in [UiPixels -> 0 .. MaxOverlap]},
        t \in SUBSET UiPixels}

\* The DrawParameters of the draw of the clipping geometry.
ClippingDrawParameters ==
    [cull_face |-> None, color_write |-> FALSE, depth_write |-> FALSE,
     stencil_test |-> None, depth_test |-> None, blend |-> None,
     stencil_op |-> [zpass |-> "Incr"]]

\* The stencil test as it would be if it were left unset after the clipping draw.
StencilTestUnset(cmd) == None

\* let mut stencil_test = None; ... stencil_test = Some(StencilFunc { Equal, 1 })
StencilTest(cmd) ==
    IF cmd.clipping_geometry # None
    THEN [func |-> "Equal", ref_value |-> 1]
    ELSE None

\* let params = DrawParameters { .. } of the main geometry
MainDrawParameters(stencil_test) ==
    [cull_face |-> None, color_write |-> TRUE, depth_write |-> FALSE,
     stencil_test |-> stencil_test, depth_test |-> None,
     blend |-> "SrcAlpha, OneMinusSrcAlpha",
     stencil_op |-> [zpass |-> "Keep"]]

\* The pixels of a geometry that pass the stencil test of params.
Passing(cover, params, stencil) ==
    {p \in UiPixels :
        /\ cover[p] > 0
        /\ \/ params.stencil_test = None
           \/ stencil[p] = params.stencil_test.ref_value}

\* The stencil buffer after a draw: every fragment that passes applies zpass.
StencilAfter(cover, params, stencil) ==
    [p \in UiPixels |->
        IF p \in Passing(cover, params, stencil) /\ params.stencil_op.zpass = "Incr"
        THEN (IF stencil[p] + cover[p] > StencilMax THEN StencilMax
              ELSE stencil[p] + cover[p])
        ELSE stencil[p]]

\* The pixels whose color a draw writes.
ColorWritten(cover, params, stencil) ==
    IF params.color_write THEN Passing(cover, params, stencil) ELSE {}

\* The cover of the triangles of a command's main geometry.
MainCover(cmd) == [p \in UiPixels |-> IF p \in cmd.triangles THEN 1 ELSE 0]

ClearOp == [op |-> "clear", color |-> None, depth |-> None, stencil |-> 0]
DrawOp(geometry, params) == [op |-> "draw", geometry |-> geometry, params |-> params]

\* UiRenderer::render up to its loop over commands commands; the frame buffer's
\* stencil holds what earlier passes left there.
render_begin(commands, stencil) ==
    /\ ui_pc = "idle"
    /\ ui_pc' = "loop"
    /\ ui_left' = commands
    /\ ui_stencil' = stencil
    /\ ui_cmd' = None
    /\ ui_stencil_test' = None
    /\ ui_drawn' = {}
    /\ ui_ops' = <<>>

\* One turn of the loop up to the main geometry: the clipping geometry of cmd,
\* if it has any, is drawn after the stencil buffer is cleared.
render_clipping(cmd) ==
    /\ ui_pc = "loop"
    /\ ui_left > 0
    /\ ui_pc' = "main"
    /\ ui_cmd' = cmd
    /\ ui_drawn' = {}
    /\ ui_stencil_test' = StencilTest(cmd)
    /\ IF cmd.clipping_geometry # None
       THEN LET cleared == [p \in UiPixels |-> ClearOp.stencil]
            IN /\ ui_stencil' = StencilAfter(cmd.clipping_geometry.cover,
                                             ClippingDrawParameters, cleared)
               /\ ui_ops' = <<ClearOp, DrawOp("clipping", ClippingDrawParameters)>>
       ELSE /\ ui_ops' = <<>>
            /\ UNCHANGED ui_stencil
    /\ UNCHANGED ui_left

\* The rest of the turn: run_pass draws the triangles of the command.
render_main ==
    /\ ui_pc = "main"
    /\ LET params == MainDrawParameters(ui_stencil_test)
       IN /\ ui_drawn' = ColorWritten(MainCover(ui_cmd), params, ui_stencil)
          /\ ui_stencil' = StencilAfter(MainCover(ui_cmd), params, ui_stencil)
          /\ ui_ops' = Append(ui_ops, DrawOp("main", params))
    /\ ui_pc' = "loop"
    /\ ui_left' = ui_left - 1
    /\ UNCHANGED <<ui_cmd, ui_stencil_test>>

\* The loop is over: render returns Ok(statistics).
render_return ==
    /\ ui_pc = "loop"
    /\ ui_left = 0
    /\ ui_pc' = "idle"
    /\ UNCHANGED <<ui_left, ui_cmd, ui_stencil_test, ui_stencil, ui_drawn, ui_ops>>

UiOthers ==
    UNCHANGED <<previewVars, componentVars, tileVars, bitVars, gbufferVars, tileMapVars>>

RenderBegin ==
    (\E commands \in 0 .. NumCommands, stencil \in [UiPixels -> 0 .. 1] :
        render_begin(commands, stencil))
    /\ UiOthers
RenderClipping == (\E cmd \in Commands : render_clipping(cmd)) /\ UiOthers
RenderMain == render_main /\ UiOthers
RenderReturn == render_return /\ UiOthers

NextUi ==
    \/ RenderBegin
    \/ RenderClipping
    \/ RenderMain
    \/ RenderReturn

\* A turn of the loop has drawn the main geometry of ui_cmd.
CommandDrawn == ui_cmd # None /\ Len(ui_ops) > 0 /\ ui_ops[Len(ui_ops)].geometry = "main"

\* C15: for a command with clipping geometry the renderer first clears the
\* stencil buffer to 0, then draws the clipping geometry with color writes
\* disabled and stencil increment on pass, and only then draws the main geometry
\* with stencil test Equal against reference 1, so the main geometry is drawn
\* only on marked pixels; for a command without clipping geometry the main
\* geometry is drawn with no stencil test.
C15_ClippingFirst ==
    /\ (ui_pc = "main" /\ ui_cmd.clipping_geometry # None) =>
          \A p \in UiPixels : ui_stencil[p] = ui_cmd.clipping_geometry.cover[p]
    /\ (CommandDrawn /\ ui_cmd.clipping_geometry # None) =>
          /\ Len(ui_ops) = 3
          /\ ui_ops[1].op = "clear" /\ ui_ops[1].stencil = 0
          /\ ui_ops[2].op = "draw" /\ ui_ops[2].geometry = "clipping"
          /\ ui_ops[2].params.color_write = FALSE
          /\ ui_ops[2].params.stencil_op.zpass = "Incr"
          /\ ui_ops[3].op = "draw" /\ ui_ops[3].geometry = "main"
          /\ ui_ops[3].params.stencil_test = [func |-> "Equal", ref_value |-> 1]
          /\ \A p \in ui_drawn :
                p \in ui_cmd.triangles /\ ui_cmd.clipping_geometry.cover[p] > 0
    /\ (CommandDrawn /\ ui_cmd.clipping_geometry = None) =>
          /\ Len(ui_ops) = 1
          /\ ui_ops[1].op = "draw"
          /\ ui_ops[1].params.stencil_test = None
          /\ ui_drawn = ui_cmd.triangles

\* A command whose clipping geometry marks the first pixel only, and whose
\* triangles cover all pixels, was drawn on that pixel alone.
C15_Witness ==
    /\ CommandDrawn
    /\ ui_cmd.clipping_geometry # None
    /\ ui_cmd.triangles = UiPixels
    /\ ui_drawn = {1}
    /\ ui_cmd.clipping_geometry.cover[1] = 1

\* ========================================================================
\* Initial state and specifications
\* ========================================================================
Init ==
    /\ scene_loaded = FALSE
    /\ graph = [h \in NodeHandles |-> PlainNode(0)]
    /\ selection = [animation_player |-> NONE, animation |-> NONE]
    /\ node_overrides = {}
    /\ preview_mode_data = None
    /\ toolbar_enabled = FALSE
    /\ cmd_pending = FALSE
    /\ panicked = FALSE
    /\ last = [op |-> "init", arg |-> "None"]
    /\ entry_graph = NoEntry
    /\ touched = {}
    /\ foo = None
    /\ query = [op |-> "none"]
    /\ tstate = DefaultTileDrawState
    /\ tile_set_editor = FALSE
    /\ panel = FALSE
    /\ delayed_messages = <<>>
    /\ dm_track = [id \in MsgIds |-> NotReceived]
    /\ tile_ui_sent = <<>>
    /\ mutated = FALSE
    /\ tile_last = [op |-> "default", result |-> FALSE, was_mutated |-> FALSE,
                    after_check |-> FALSE]
    /\ bf_built = FALSE
    /\ bf_value = 0
    /\ bf_checked = <<>>
    /\ bf_last = [kind |-> "none"]
    /\ bf_out = <<>>
    /\ bf_parent = NoNodes
    /\ gb_created = FALSE
    /\ gb_textures = <<>>
    /\ gb_framebuffer = [depth |-> NONE, color |-> <<>>]
    /\ gb_decal_framebuffer = [depth |-> NONE, color |-> <<>>]
    /\ gb_width = 0
    /\ gb_height = 0
    /\ gb_pc = "idle"
    /\ gb_bundles_left = 0
    /\ gb_decals_left = 0
    /\ gb_before = <<>>
    /\ tm_selection = NotGraphSelection
    /\ tm_alive = SceneNodes
    /\ tm_node_data = [h \in SceneNodes |-> FALSE]
    /\ tm_tile_map = NONE
    /\ tm_editor_data = FALSE
    /\ tm_mode = NONE
    /\ tm_last = "start"
    /\ ui_pc = "idle"
    /\ ui_left = 0
    /\ ui_cmd = None
    /\ ui_stencil_test = None
    /\ ui_stencil = [p \in UiPixels |-> 0]
    /\ ui_drawn = {}
    /\ ui_ops = <<>>

\* The animation editor with a scene, its UI messages and the editor's messages.
SpecPreview == Init /\ [][NextPreview]_vars

\* The ComponentProvider test: Foo is built, queried and written through.
SpecComponent == Init /\ [][NextComponent]_vars

\* The tile map editor plugin: its draw state is changed, checked and updated.
SpecTile == Init /\ [][NextTile]_vars

\* The tile map editor plugin: delayed messages arrive and frames pass.
SpecDelayed == Init /\ [][NextDelayed]_vars

\* The BitField widget: it is built and messages are routed to it.
SpecBit == Init /\ [][NextBit]_vars

\* The G-buffer: it is created and filled frame after frame.
SpecGBuffer == Init /\ [][NextGBuffer]_vars

\* The tile map editor plugin and the selection of a game scene.
SpecTileMap == Init /\ [][NextTileMap]_vars

\* The UI renderer: drawing contexts are rendered command by command.
SpecUi == Init /\ [][NextUi]_vars

====
